---- MODULE Spec2Model ----
(***************************************************************************)
(* A model of the `restartables` crate: the Restartable future adaptor     *)
(* (src/src/lib.rs), its result types (src/src/outcome.rs) and the way its *)
(* callers drive it (`retrying.await`, src/src/reqw.rs).                   *)
(*                                                                         *)
(* Time is a discrete clock.  One Poll step is one whole call of           *)
(* Restartable::poll; the clock may advance between the two clock reads    *)
(* the call makes (Instant::now at line 138, start.elapsed() at line 144). *)
(***************************************************************************)
EXTENDS Integers, FiniteSets, Sequences, TLC

\* ---------------------------------------------------------------- bounds
MaxTimeout   == 2      \* largest deadline tried
MaxValue     == 1      \* inner futures resolve to a value in 0..MaxValue
MaxRestarts  == 3      \* cap on the restart counter
MaxPreStart  == 1      \* clock ticks allowed before the first poll
MaxPollDelay == 1      \* clock ticks that may pass inside one poll
MaxElapsed   == MaxTimeout + 2

Values == 0 .. MaxValue

\* Option<_>
None    == [some |-> FALSE]
Some(x) == [some |-> TRUE, v |-> x]

\* Result<T, E> as returned by the test closure
TestOk(t)  == [ok |-> TRUE,  val |-> t]
TestErr(e) == [ok |-> FALSE, val |-> e]
\* A test closure in the style of lib.rs 41-47: it returns the values of an
\* accepted set as Ok(value) and answers every other value with an error
\* that tells the rejected values apart.
TestClosure(accepted) ==
    [r \in Values |-> IF r \in accepted THEN TestOk(r) ELSE TestErr(MaxValue - r)]

\* Poll<Fut::Output> of the inner future
InnerPending  == [ready |-> FALSE, val |-> 0]
InnerReady(r) == [ready |-> TRUE,  val |-> r]
InnerPolls    == {InnerPending} \cup {InnerReady(r) : r \in Values}

\* Result<Success<T>, Failure<E>>, and NoOutcome while poll has not returned Ready
NoOutcome      == [kind |-> "None"]
Success(v,d,n) == [kind |-> "Ok", value |-> v, duration |-> d, restarts |-> n]
FailureTimeout == [kind |-> "Timeout"]
FailureErr(e,n) == [kind |-> "Err", error |-> e, restarts |-> n]

VARIABLES
    pc,          \* "new" | "pending" | "done" | "panicked" | "dropped"
    clock,       \* Instant::now()
    future,      \* the owned inner future: [id, polled, resolved]
    start,       \* Option<Instant>
    timeout,     \* Option<Duration>
    test,        \* the test closure, Values -> Result<T, E>
    restarts,    \* usize
    woken,       \* the task's waker has been called since the last poll
    outcome,     \* what poll returned as Poll::Ready, or NoOutcome
    last,        \* record of the most recent call of poll
    factoryCalls,\* number of calls of the factory closure
    testCalls,   \* number of calls of the test closure
    failures,    \* number of calls of the test closure that returned Err
    factoryFaults, \* number of calls of the factory closure that panicked
    live,        \* number of inner futures that exist
    peakLive     \* largest number of inner futures that existed at one
                 \* moment of the most recent call of poll

vars == <<pc, clock, future, start, timeout, test, restarts, woken, outcome,
          last, factoryCalls, testCalls, failures, factoryFaults, live, peakLive>>

NoFuture   == [id |-> 0, polled |-> FALSE, resolved |-> FALSE]
NewFuture(n) == [id |-> n, polled |-> FALSE, resolved |-> FALSE]

NoPoll == [n |-> 0, inner |-> InnerPending, class |-> TestOk(0), tested |-> FALSE,
           elapsed |-> 0, timedOut |-> FALSE, ret |-> "None",
           restartsBefore |-> 0, futureBefore |-> 0, woke |-> FALSE,
           now |-> 0, startBefore |-> None, calledFactory |-> FALSE,
           timeoutBefore |-> None]

\* lib.rs 145-149: the deadline test, strict
TimedOutInclusive(elapsed, to) == IF to.some THEN elapsed >= to.v ELSE FALSE
TimedOutNoneIsZero(elapsed, to) == IF to.some THEN elapsed > to.v ELSE elapsed > 0
TimedOutNever(elapsed, to) == FALSE
TimedOut(elapsed, to) == IF to.some THEN elapsed > to.v ELSE FALSE

\* lib.rs 151-175: the arm of `match (inner_poll, timed_out)` that is taken
ArmDeadlineFirst(ready, ok, timed_out) ==
    CASE timed_out /\ ~ready           -> "Timeout"
      [] timed_out /\ ready            -> "Err"
      [] ~timed_out /\ ~ready          -> "Pending"
      [] ~timed_out /\ ready /\ ok     -> "Ok"
      [] ~timed_out /\ ready /\ ~ok    -> "Restart"
ArmTimeoutDropsError(ready, ok, timed_out) ==
    CASE ~ready /\ timed_out           -> "Timeout"
      [] ~ready /\ ~timed_out          -> "Pending"
      [] ready /\ ok                   -> "Ok"
      [] ready /\ ~ok /\ ~timed_out    -> "Restart"
      [] ready /\ ~ok /\ timed_out     -> "Timeout"
ArmRestartsAfterDeadline(ready, ok, timed_out) ==
    CASE ~ready /\ timed_out           -> "Timeout"
      [] ~ready /\ ~timed_out          -> "Pending"
      [] ready /\ ok                   -> "Ok"
      [] ready /\ ~ok                  -> "Restart"
ArmRestartsWhilePending(ready, ok, timed_out) ==
    CASE ~ready /\ timed_out           -> "Timeout"
      [] ~ready /\ ~timed_out          -> "Restart"
      [] ready /\ ok                   -> "Ok"
      [] ready /\ ~ok /\ ~timed_out    -> "Restart"
      [] ready /\ ~ok /\ timed_out     -> "Err"
ArmErrWithoutDeadline(ready, ok, timed_out) ==
    CASE ~ready /\ timed_out           -> "Timeout"
      [] ~ready /\ ~timed_out          -> "Pending"
      [] ready /\ ok                   -> "Ok"
      [] ready /\ ~ok                  -> "Err"
Arm(ready, ok, timed_out) ==
    CASE ~ready /\ timed_out           -> "Timeout"
      [] ~ready /\ ~timed_out          -> "Pending"
      [] ready /\ ok                   -> "Ok"
      [] ready /\ ~ok /\ ~timed_out    -> "Restart"
      [] ready /\ ~ok /\ timed_out     -> "Err"

\* lib.rs 167: the restart counter after a call of poll that returned ret
RestartsAfterNoCount(ret, n) == n
RestartsAfterCountsErr(ret, n) == IF ret \in {"Restart", "Err"} THEN n + 1 ELSE n
RestartsAfter(ret, n) == IF ret = "Restart" THEN n + 1 ELSE n

\* lib.rs 153, 157-161, 171-174: the value poll returns inside Poll::Ready
PollOutput(ret, class, elapsed, n, old) ==
    CASE ret = "Timeout" -> FailureTimeout
      [] ret = "Ok"      -> Success(class.val, elapsed, n)
      [] ret = "Err"     -> FailureErr(class.val, n)
      [] OTHER           -> old

\* lib.rs 153-174 and 165: poll returns Ready, returns Pending, or unwinds
\* with the factory's panic
PcAfterSwallowsPanic(ret) ==
    IF ret \in {"Timeout", "Ok", "Err"} THEN "done" ELSE "pending"
PcAfter(ret) ==
    CASE ret \in {"Timeout", "Ok", "Err"} -> "done"
      [] ret = "Panic"                   -> "panicked"
      [] OTHER                           -> "pending"

\* lib.rs 138: start.get_or_insert_with(Instant::now)
StartAfterReset(st, now) == now
StartAfter(st, now) == IF st.some THEN st.v ELSE now

\* lib.rs 164: the arms in which poll calls cx.waker().wake_by_ref() itself
SelfWakeNever(arm) == FALSE
SelfWake(arm) == arm = "Restart"

\* lib.rs 165: the arms in which poll calls the factory
FactoryCalledOnErr(arm) == arm \in {"Restart", "Err"}
FactoryCalled(arm) == arm = "Restart"

\* lib.rs 141 and 165-166: the inner future the slot holds after a call of
\* poll that returned ret; ip is what the inner poll returned, id numbers the
\* future the factory made
FutureAfterKeepsRejected(ret, fut, ip, id) ==
    [fut EXCEPT !.polled = TRUE, !.resolved = ip.ready]
FutureAfter(ret, fut, ip, id) ==
    IF ret = "Restart"
      THEN NewFuture(id)
      ELSE [fut EXCEPT !.polled = TRUE, !.resolved = ip.ready]

\* lib.rs 164-167: the statements of the restart arm in the order they run;
\* this.future.set(new_future) drops the old inner future and moves the new
\* one into the slot
RestartStepsLeak == <<"wake", "factory", "install", "count">>
RestartSteps == <<"wake", "factory", "drop", "install", "count">>

\* number of inner futures that exist after the statements of steps have
\* run, n existing before
RECURSIVE LiveAfter(_, _)
LiveAfter(steps, n) ==
    IF steps = <<>> THEN n
    ELSE LET m == CASE Head(steps) = "factory" -> n + 1
                    [] Head(steps) = "drop"    -> n - 1
                    [] OTHER                   -> n
         IN  LiveAfter(Tail(steps), m)

\* largest number of inner futures that exist at one moment while the
\* statements of steps run
RECURSIVE PeakLive(_, _)
PeakLive(steps, n) ==
    IF steps = <<>> THEN n
    ELSE LET m == LiveAfter(<<Head(steps)>>, n)
             rest == PeakLive(Tail(steps), m)
         IN  IF rest > n THEN rest ELSE n

Init ==
    /\ pc = "new"
    /\ clock = 0
    /\ future = NoFuture
    /\ start = None
    /\ timeout \in {None} \cup {Some(d) : d \in 0 .. MaxTimeout}
    /\ test \in {TestClosure(acc) : acc \in SUBSET Values}
    /\ restarts = 0
    /\ woken = FALSE
    /\ outcome = NoOutcome
    /\ last = NoPoll
    /\ factoryCalls = 0
    /\ testCalls = 0
    /\ failures = 0
    /\ factoryFaults = 0
    /\ live = 0
    /\ peakLive = 0

\* Restartable::new (lib.rs 116-125) as called from execute (reqw.rs 44-46):
\* the factory is called once; it panics when the request cannot be cloned.
\* A constructed future is awaited, which polls it a first time.
New ==
    /\ pc = "new"
    /\ \E fok \in BOOLEAN :
        /\ factoryCalls' = factoryCalls + 1
        /\ factoryFaults' = IF fok THEN factoryFaults ELSE factoryFaults + 1
        /\ IF fok
             THEN /\ pc' = "pending"
                  /\ future' = NewFuture(factoryCalls + 1)
                  /\ woken' = TRUE
                  /\ live' = 1
             ELSE /\ pc' = "panicked"
                  /\ UNCHANGED <<future, woken, live>>
    /\ UNCHANGED <<clock, start, timeout, test, restarts, outcome, last,
                   testCalls, failures, peakLive>>

\* Time passes outside poll.
TickResolvesTimeout ==
    /\ pc \in {"new", "pending"}
    /\ IF start.some THEN clock - start.v < MaxElapsed ELSE clock < MaxPreStart
    /\ clock' = clock + 1
    /\ IF pc = "pending" /\ start.some /\ TimedOut(clock + 1 - start.v, timeout)
         THEN pc' = "done" /\ outcome' = FailureTimeout
         ELSE UNCHANGED <<pc, outcome>>
    /\ UNCHANGED <<future, start, timeout, test, restarts, woken,
                   last, factoryCalls, testCalls, failures, factoryFaults,
                   live, peakLive>>
Tick ==
    /\ pc \in {"new", "pending"}
    /\ IF start.some THEN clock - start.v < MaxElapsed ELSE clock < MaxPreStart
    /\ clock' = clock + 1
    /\ UNCHANGED <<pc, future, start, timeout, test, restarts, woken, outcome,
                   last, factoryCalls, testCalls, failures, factoryFaults,
                   live, peakLive>>

\* The event the pending inner future waits for arrives and wakes the task.
Wake ==
    /\ pc = "pending"
    /\ ~woken
    /\ future.polled
    /\ woken' = TRUE
    /\ UNCHANGED <<pc, clock, future, start, timeout, test, restarts, outcome,
                   last, factoryCalls, testCalls, failures, factoryFaults,
                   live, peakLive>>

\* The owner drops the Restartable before it has resolved (lib.rs 94-108: the
\* struct owns the inner future, which is dropped with it); a dropped future
\* cannot be polled.
DropLeaksFuture ==
    /\ pc = "pending"
    /\ pc' = "dropped"
    /\ UNCHANGED <<clock, future, start, timeout, test, restarts, woken,
                   outcome, last, factoryCalls, testCalls, failures,
                   factoryFaults, live, peakLive>>
Drop ==
    /\ pc = "pending"
    /\ pc' = "dropped"
    /\ live' = 0
    /\ UNCHANGED <<clock, future, start, timeout, test, restarts, woken,
                   outcome, last, factoryCalls, testCalls, failures,
                   factoryFaults, peakLive>>

\* `retrying.await` (reqw.rs 46): the task is polled when it has been woken
\* and has not yet returned Poll::Ready.
RunnableAfterReady == pc \in {"pending", "done"} /\ woken
Runnable == pc = "pending" /\ woken

\* Restartable::poll (lib.rs 136-176), one whole call.
\*   d      clock ticks between Instant::now() (138) and start.elapsed() (144)
\*   ip     what the inner future's poll returns (141)
\*   iw     whether the inner future's poll called the waker
\*   fok    whether the factory returns (165) or panics
PollWith(d, ip, iw, fok) ==
    LET s         == StartAfter(start, clock)                       \* 138
        class     == test[ip.val]                                   \* 141
        elapsed   == (clock + d) - s                                \* 144
        timed_out == TimedOut(elapsed, timeout)                     \* 145-149
        arm       == Arm(ip.ready, class.ok, timed_out)             \* 151
        ret       == IF arm = "Restart" /\ ~fok THEN "Panic" ELSE arm
    IN  /\ Runnable
        /\ elapsed <= MaxElapsed
        /\ arm = "Restart" => restarts < MaxRestarts
        /\ start' = Some(s)
        /\ clock' = clock + d
        /\ testCalls' = IF ip.ready THEN testCalls + 1 ELSE testCalls
        /\ failures' = IF ip.ready /\ ~class.ok THEN failures + 1 ELSE failures
        /\ factoryCalls' = IF FactoryCalled(arm) THEN factoryCalls + 1 ELSE factoryCalls
        /\ factoryFaults' = IF ret = "Panic" THEN factoryFaults + 1 ELSE factoryFaults
        /\ future' = FutureAfter(ret, future, ip, factoryCalls + 1) \* 141, 165-166
        /\ live' = IF ret = "Restart" THEN LiveAfter(RestartSteps, live) ELSE live
        /\ peakLive' = IF ret = "Restart" THEN PeakLive(RestartSteps, live) ELSE live
        /\ restarts' = RestartsAfter(ret, restarts)                 \* 167
        /\ woken' = (iw \/ SelfWake(arm))                           \* 164
        /\ outcome' = PollOutput(ret, class, elapsed, restarts, outcome)
        /\ pc' = PcAfter(ret)
        /\ last' = [n |-> IF last.n < 2 THEN last.n + 1 ELSE 2,
                    inner |-> ip, class |-> class, tested |-> ip.ready,
                    elapsed |-> elapsed, timedOut |-> timed_out, ret |-> ret,
                    restartsBefore |-> restarts, futureBefore |-> future.id,
                    woke |-> SelfWake(arm),
                    now |-> clock, startBefore |-> start,
                    calledFactory |-> FactoryCalled(arm),
                    timeoutBefore |-> timeout]
        /\ UNCHANGED <<timeout, test>>

Poll ==
    \E d \in 0 .. MaxPollDelay, ip \in InnerPolls, iw \in BOOLEAN, fok \in BOOLEAN :
        PollWith(d, ip, iw, fok)

Next == New \/ Tick \/ Wake \/ Poll \/ Drop

Spec == Init /\ [][Next]_vars

\* The executor runs a woken task, the clock advances, construction completes.
\* Nothing obliges the outside world to deliver the event a pending inner
\* future waits for, so Wake carries no fairness.
FairSpec == Spec /\ WF_vars(Poll) /\ WF_vars(Tick) /\ WF_vars(New)

\* ---------------------------------------------------------------- claims

Polled == last.ret # "None"
DeadlinePassed(elapsed) == timeout.some /\ elapsed > timeout.v

\* C1: a call of poll in which the inner future resolved and the test
\* returned Ok(v) returns Ok{value = v, duration = elapsed, restarts = the
\* counter as it was}, whatever the deadline and the elapsed time; it does
\* not return Timeout or Err and does not restart.
C1_SuccessWins ==
    (Polled /\ last.inner.ready /\ test[last.inner.val].ok) =>
        /\ last.ret = "Ok"
        /\ pc = "done"
        /\ outcome = Success(test[last.inner.val].val, last.elapsed, last.restartsBefore)
        /\ restarts = last.restartsBefore
        /\ future.id = last.futureBefore
C1_Witness ==
    /\ last.ret = "Ok"
    /\ DeadlinePassed(last.elapsed)
    /\ outcome.kind = "Ok"

\* C2: when the test rejected exactly the first k resolved inner futures and
\* accepted the next one, the result is Ok with restarts = k (0 when the
\* first classification passes).
C2_RestartsEqualRejections ==
    (pc = "done" /\ last.inner.ready /\ test[last.inner.val].ok) =>
        /\ outcome.kind = "Ok"
        /\ outcome.restarts = failures
        /\ testCalls = failures + 1
C2_Witness ==
    /\ pc = "done"
    /\ outcome.kind = "Ok"
    /\ failures = 2
    /\ outcome.restarts = 2

\* C3 as stated: the restart counter never decreases, and the count in Ok
\* and in Err equals the number of failing classifications so far.
C3_Original ==
    /\ [][restarts' >= restarts]_vars
    /\ [](outcome.kind \in {"Ok", "Err"} => outcome.restarts = failures)
\* C3 amended: the restart counter never decreases and equals the number of
\* restarts performed; in Ok it equals the number of failing classifications,
\* in Err it is one less, the last failing classification being returned as
\* the error instead of being restarted.
C3_RestartCount ==
    /\ [][restarts' >= restarts]_vars
    /\ [](outcome.kind = "Ok"  => outcome.restarts = failures)
    /\ [](outcome.kind = "Err" => outcome.restarts = failures - 1)
    /\ [](outcome.kind \in {"Ok", "Err"} => outcome.restarts = restarts)
C3_Witness ==
    /\ outcome.kind = "Err"
    /\ outcome.restarts = 2
    /\ failures = 3

\* C4: while the inner future does not resolve, a call of poll returns
\* Timeout exactly when a deadline d is set and elapsed > d; with
\* elapsed <= d (elapsed = d included) it returns Pending.
C4_StrictDeadline ==
    /\ (Polled /\ ~last.inner.ready) =>
          /\ last.timedOut = DeadlinePassed(last.elapsed)
          /\ DeadlinePassed(last.elapsed)  => (last.ret = "Timeout" /\ outcome = FailureTimeout)
          /\ ~DeadlinePassed(last.elapsed) => (last.ret = "Pending" /\ outcome = NoOutcome)
    /\ outcome.kind = "Timeout" => (~last.inner.ready /\ DeadlinePassed(last.elapsed))
C4_Witness ==
    /\ Polled
    /\ ~last.inner.ready
    /\ timeout.some
    /\ last.elapsed = timeout.v
    /\ last.elapsed > 0
    /\ last.ret = "Pending"
    /\ pc = "pending"

\* C5: without a deadline no call of poll is timed out, the result is never
\* Timeout and never Err, and every failing classification calls the factory
\* for a restart.
C5_Unbounded ==
    ~timeout.some =>
        /\ outcome.kind \in {"None", "Ok"}
        /\ ~last.timedOut
        /\ (Polled /\ last.inner.ready /\ ~test[last.inner.val].ok) =>
              /\ last.ret \in {"Restart", "Panic"}
              /\ factoryCalls = last.futureBefore + 1
C5_Witness ==
    /\ ~timeout.some
    /\ last.ret = "Restart"
    /\ last.elapsed = MaxElapsed
    /\ restarts = last.restartsBefore + 1

\* C6: Err{error, restarts} is returned only by a call of poll in which the
\* inner future resolved, the test returned Err(e) and elapsed > deadline,
\* and it carries that e; a failing classification with elapsed <= deadline
\* goes to a restart and no result is returned.
C6_ErrOnlyAfterDeadline ==
    /\ outcome.kind = "Err" =>
          /\ last.ret = "Err"
          /\ last.inner.ready
          /\ ~test[last.inner.val].ok
          /\ DeadlinePassed(last.elapsed)
          /\ outcome.error = test[last.inner.val].val
    /\ (Polled /\ last.inner.ready /\ ~test[last.inner.val].ok
             /\ ~DeadlinePassed(last.elapsed)) =>
          /\ last.ret \in {"Restart", "Panic"}
          /\ outcome = NoOutcome
C6_Witness ==
    /\ outcome.kind = "Err"
    /\ outcome.restarts >= 1
    /\ \E v \in Values : v # last.inner.val /\ ~test[v].ok /\ test[v].val # outcome.error

\* C7: when the result is Timeout, no inner future has resolved: the test
\* was never called and the restart counter is 0.
C7_TimeoutMeansNeverResolved ==
    outcome.kind = "Timeout" => (testCalls = 0 /\ restarts = 0 /\ factoryCalls = 1)

C9_FactoryFaultIsFatal ==
    /\ [](factoryFaults > 0 =>
            /\ pc = "panicked"
            /\ outcome = NoOutcome
            /\ factoryFaults = 1
            /\ Polled => (last.ret = "Panic" /\ restarts = last.restartsBefore
                          /\ future.id = last.futureBefore /\ future.resolved))
    /\ [](pc = "panicked" => factoryFaults > 0)
    /\ [][pc = "panicked" => UNCHANGED <<pc, outcome, future, last, restarts,
                                          testCalls, factoryCalls>>]_vars
C9_Witness ==
    /\ pc = "panicked"
    /\ last.ret = "Panic"
    /\ restarts >= 1

Terminated == pc \in {"done", "panicked"}

\* C10 as stated: with a deadline set, an advancing clock and an executor
\* that polls the task whenever it was woken, every run of a combinator that
\* is not dropped ends (a panic of the factory is taken as an end too).
C10_Original == (timeout.some /\ [](pc # "dropped")) => <>Terminated
\* C10 amended: with a deadline set, an advancing clock and an executor that
\* polls the task whenever it was woken, every run in which the pending task
\* keeps being woken ends with Ok, Err or Timeout or with the factory's
\* panic; a pending task that is never woken again never resolves.
C10_TerminatesIfWoken ==
    (timeout.some /\ [](pc # "dropped") /\ []<>(pc = "pending" => woken))
        => <>Terminated
C10_Witness ==
    /\ outcome.kind = "Timeout"
    /\ last.n = 2
    /\ restarts = 0
    /\ ~woken

\* C11: the deadline is only noticed inside a call of poll: every result is
\* returned by a call of poll, and while the pending task has not been woken
\* nothing resolves it or changes its state, however far the clock is past
\* the deadline.
C11_Cooperative ==
    /\ [][outcome' # outcome =>
            (Runnable /\ last'.now = clock /\ last'.ret = outcome'.kind)]_vars
    /\ [][(pc = "pending" /\ ~woken) =>
            /\ pc' \in {"pending", "dropped"}
            /\ outcome' = NoOutcome
            /\ UNCHANGED <<restarts, future, start, last, testCalls, factoryCalls>>]_vars
C11_Witness ==
    /\ pc = "pending"
    /\ ~woken
    /\ start.some
    /\ timeout.some
    /\ clock - start.v = MaxElapsed
    /\ clock - start.v > timeout.v + 1

\* C12: a call of poll that restarts calls the waker itself and returns
\* Pending, so a freshly installed inner future always has a wake-up
\* outstanding and, under an executor that polls woken tasks, is polled
\* without any outside event.
C12_ImmediateRepoll ==
    /\ [](last.ret = "Restart" => last.woke)
    /\ []((pc = "pending" /\ ~future.polled) => woken)
    /\ \A i \in 1 .. (MaxRestarts + 1) :
          (pc = "pending" /\ future.id = i /\ ~future.polled)
              ~> ((Polled /\ last.futureBefore = i) \/ pc = "dropped")
C12_Witness ==
    /\ last.ret = "Restart"
    /\ pc = "pending"
    /\ woken
    /\ ~future.polled
    /\ future.id = 3

\* C13 as stated: at most one inner future exists at any moment, also inside
\* a restart.
C13_Original == live <= 1 /\ peakLive <= 1
\* C13 amended: the slot holds exactly one inner future between construction
\* and resolution; inside a restart the factory makes the new future while
\* the rejected one still exists and the rejected one is dropped when the new
\* one is moved into the slot, so two exist for that moment and never more.
C13_OneOwnedInstance ==
    /\ pc = "pending" => live = 1
    /\ live <= 1
    /\ peakLive <= 2
    /\ peakLive = 2 <=> last.ret = "Restart"
C13_Witness ==
    /\ last.ret = "Restart"
    /\ peakLive = 2
    /\ live = 1
    /\ pc = "pending"

\* C14 as stated: a call of poll with the inner future pending and the
\* deadline not passed changes nothing: restarts, timeout, start and the
\* inner future are as before, the test and the factory are not called.
C14_Original ==
    (Polled /\ ~last.inner.ready /\ ~DeadlinePassed(last.elapsed)) =>
        /\ last.ret = "Pending"
        /\ restarts = last.restartsBefore
        /\ timeout = last.timeoutBefore
        /\ start = last.startBefore
        /\ future.id = last.futureBefore
        /\ ~last.tested
        /\ ~last.calledFactory
\* C14 amended: as stated, except that the first call of poll sets start to
\* the clock value at its entry; every later such call leaves start as it was.
C14_PendingFrame ==
    (Polled /\ ~last.inner.ready /\ ~DeadlinePassed(last.elapsed)) =>
        /\ last.ret = "Pending"
        /\ restarts = last.restartsBefore
        /\ timeout = last.timeoutBefore
        /\ start = IF last.startBefore.some THEN last.startBefore ELSE Some(last.now)
        /\ last.startBefore.some <=> last.n > 1
        /\ future.id = last.futureBefore
        /\ ~future.resolved
        /\ ~last.tested
        /\ ~last.calledFactory
        /\ outcome = NoOutcome
C14_Witness ==
    /\ Polled
    /\ last.n = 2
    /\ last.ret = "Pending"
    /\ last.elapsed > 0
    /\ restarts = 1
    /\ pc = "pending"

\* C15: start is None after construction, becomes the clock value at the
\* entry of the first call of poll and never changes again, restarts
\* included; timeout never changes.  The elapsed time of a call, and the
\* duration in Ok, is the clock at that call minus the clock at the first
\* call: never negative and not counting the time before the first call.
C15_StartAndDeadlineFixed ==
    /\ []((pc \in {"new", "pending"} /\ ~Polled) => start = None)
    /\ [](last.n = 1 => start = Some(last.now))
    /\ [][start.some => start' = start]_vars
    /\ [][timeout' = timeout]_vars
    /\ [](Polled => (start.some /\ last.elapsed >= 0 /\ start.v <= last.now))
    /\ [](outcome.kind = "Ok" =>
            (outcome.duration = clock - start.v /\ outcome.duration >= 0))
C15_Witness ==
    /\ outcome.kind = "Ok"
    /\ outcome.restarts >= 1
    /\ start = Some(MaxPreStart)
    /\ outcome.duration = 2
    /\ clock = MaxPreStart + 2

RejectAll == \A v \in Values : ~test[v].ok

\* C16: with a deadline set and a test that rejects every value, if every
\* inner future resolves (none is still pending when it is polled after the
\* deadline), the factory never fails, the task is not dropped and a pending
\* task keeps being woken, then the result is eventually Err{error, restarts}
\* with the error of the last call of the test, and never Ok or Timeout.
C16_AlwaysRejected ==
    ( /\ timeout.some
      /\ RejectAll
      /\ [](pc # "dropped")
      /\ [](factoryFaults = 0)
      /\ []<>(pc = "pending" => woken)
      /\ []((Polled /\ DeadlinePassed(last.elapsed)) => last.inner.ready) )
    => ( /\ <>(outcome.kind = "Err")
         /\ [](outcome.kind \notin {"Ok", "Timeout"})
         /\ [](outcome.kind = "Err" =>
                 /\ outcome.error = test[last.inner.val].val
                 /\ outcome.restarts = restarts
                 /\ outcome.restarts >= 0) )
C16_Witness ==
    /\ RejectAll
    /\ outcome.kind = "Err"
    /\ outcome.restarts = MaxRestarts
    /\ last.elapsed = MaxElapsed

\* C17: when the Restartable is dropped before it resolved, its inner future
\* is dropped with it, and afterwards the factory and the test are never
\* called and no result is produced.
C17_DropCancels ==
    /\ [](pc = "dropped" => (live = 0 /\ outcome = NoOutcome))
    /\ [][pc = "dropped" =>
            UNCHANGED <<pc, outcome, last, future, restarts, live,
                        factoryCalls, testCalls>>]_vars
C17_Witness ==
    /\ pc = "dropped"
    /\ woken
    /\ last.ret = "Restart"
    /\ live = 0

\* C18 as stated: once constructed, the number of factory calls made so far
\* is restarts + 1 in every state, and the factory is called only by a call
\* of poll in which the inner future resolved, the test failed and the
\* deadline had not passed.
C18_Original ==
    /\ pc # "new" => factoryCalls = restarts + 1
    /\ last.calledFactory =>
          (last.inner.ready /\ ~test[last.inner.val].ok /\ ~DeadlinePassed(last.elapsed))
\* C18 amended: as stated, except that a factory call that panics in a
\* restart is a call that restarts does not count: the number of calls is
\* then restarts + 2.
C18_FactoryCalls ==
    /\ pc = "new" => factoryCalls = 0
    /\ pc # "new" =>
          factoryCalls = restarts + 1 + (IF last.ret = "Panic" THEN 1 ELSE 0)
    /\ (pc = "pending" /\ ~Polled) => (factoryCalls = 1 /\ future.id = 1)
    /\ last.calledFactory =>
          (last.inner.ready /\ ~test[last.inner.val].ok /\ ~DeadlinePassed(last.elapsed))
    /\ last.calledFactory <=> last.ret \in {"Restart", "Panic"}
C18_Witness ==
    /\ pc = "pending"
    /\ restarts = MaxRestarts
    /\ factoryCalls = MaxRestarts + 1
    /\ ~last.calledFactory

\* C19: a call of poll that sees elapsed > deadline resolves: Timeout if the
\* inner future is pending, Ok if the test passes, Err if it fails; it does
\* not return Pending and does not restart, so no later call of poll exists
\* and at most one call sees elapsed > deadline.
C19_DeadlinePassedResolves ==
    /\ []((Polled /\ DeadlinePassed(last.elapsed)) =>
            /\ pc = "done"
            /\ last.ret = (IF ~last.inner.ready THEN "Timeout"
                           ELSE IF test[last.inner.val].ok THEN "Ok" ELSE "Err")
            /\ outcome.kind = last.ret
            /\ restarts = last.restartsBefore
            /\ ~last.calledFactory)
    /\ [][(Polled /\ DeadlinePassed(last.elapsed)) => last' = last]_vars
C19_Witness ==
    /\ last.n = 1
    /\ DeadlinePassed(last.elapsed)
    /\ last.ret = "Err"
    /\ pc = "done"

\* C20: a call of poll calls the test at most once and the factory at most
\* once and adds at most 1 to restarts; an inner future that has resolved
\* is not polled again: its result ends the run or it is replaced in the
\* same call, and the replacement is first polled by a later call.
C20_OncePerResumption ==
    /\ [][/\ restarts' <= restarts + 1
          /\ testCalls' <= testCalls + 1
          /\ factoryCalls' <= factoryCalls + 1]_vars
    /\ [](pc = "pending" => ~future.resolved)
    /\ []((pc = "pending" /\ last.ret = "Restart") =>
            (~future.polled /\ future.id = last.futureBefore + 1))
    /\ [](last.tested <=> (Polled /\ last.inner.ready))
C20_Witness ==
    /\ pc = "pending"
    /\ last.ret = "Restart"
    /\ testCalls = 1
    /\ future.id = 2
    /\ ~future.polled

====
